---- MODULE Spec2Model ----
(***************************************************************************)
(* Retrieval core of agentic-playwright: the ChromaDB-backed VectorStore   *)
(* (src/src/rag/vectorStore.ts) and the Retriever built on it              *)
(* (src/src/rag/retriever.ts).                                             *)
(*                                                                         *)
(* Scores and distances are numbers in hundredths (0.3 is 30, 1.0 is 100). *)
(* A string built by concatenation is the sequence of its pieces.          *)
(***************************************************************************)
EXTENDS Integers, Sequences, FiniteSets, TLC

VARIABLES
    collection,   \* VectorStore.collection: "null" or "open" (a handle)
    exists,       \* backing engine: the named collection exists
    docs,         \* backing engine: the documents stored in the collection
    call,         \* the operation in progress or just finished, with what it read
    ret           \* what that operation returned to its caller

vars == <<collection, exists, docs, call, ret>>

\* ------------------------------------------------------------------ bounds

MaxLimit == 2        \* largest explicit options.limit tried
MaxQueries == 2      \* longest query list given to retrieveMultiple
MaxExpansions == 1   \* longest expansion list given to retrieveWithExpansion
MaxPieces == 4       \* longest short text given to chunkText, in words and spaces
MaxItems == 2        \* length of each list of a source configuration
MaxFailing == 2      \* most sources that fail to load during one indexDocuments
MaxStored == 0       \* most chunks in the collection when indexDocuments starts

\* ------------------------------------------------------- program constants

DefaultLimit == 10            \* retrieve: limit = 10
DefaultMinScore == 30         \* retrieve: minScore = 0.3
ExpansionLimit == 5           \* retrieveWithExpansion: { ...options, limit: 5 }
DefaultExpansionLimit == 10   \* retrieveWithExpansion: options.limit || 10
DefaultMultiLimit == 15       \* retrieveMultiple: options.limit || 15
PerfectScore == 100           \* getDocumentsBySourceType: score: 1.0
DefaultMaxChunkSize == 1000   \* chunkText: maxChunkSize: number = 1000
DefaultOverlap == 200         \* chunkText: overlap: number = 200

NoContextText == <<"No relevant context found.">>
NoDocumentsText == <<"No documents found for this source.">>

\* ------------------------------------------------------------------ corpus

\* The chunks the loaders can hand to addDocuments (Document, vectorStore.ts:7-21).
\* Source "A" has two chunks, stored out of document order; source "B" has one
\* and no title. No chunk has a url or an issueKey, so the header lines and the
\* citation field made from them are left out.
Corpus ==
    { [id |-> 1, content |-> "a-second",
       metadata |-> [source |-> "A", sourceType |-> "jira", title |-> "Login story", chunkIndex |-> 1]],
      [id |-> 2, content |-> "a-first",
       metadata |-> [source |-> "A", sourceType |-> "jira", title |-> "Login story", chunkIndex |-> 0]],
      [id |-> 3, content |-> "b-first",
       metadata |-> [source |-> "B", sourceType |-> "local", title |-> "", chunkIndex |-> 0]] }

Sources == {"A", "B", "C"}
SourceTypes == {"jira", "confluence", "local"}

\* The distances the engine can report between a query and a chunk.
Distances == {20, 40, 90}

\* ----------------------------------------------------------- JS primitives

Min(a, b) == IF a < b THEN a ELSE b

\* Array.prototype.slice(0, n) for n >= 0
Slice(s, n) == SubSeq(s, 1, Min(n, Len(s)))

\* Array.prototype.sort((a, b) => key(a) - key(b)), keys[i] being the key of
\* s[i]: ascending in the key and stable. Insertion sort over the elements
\* paired with their keys: x goes in front of the first element with a larger
\* key, so equal keys keep their order.
RECURSIVE InsertSorted(_, _)
InsertSorted(sorted, x) ==
    IF sorted = <<>> THEN <<x>>
    ELSE IF x.key - Head(sorted).key < 0 THEN <<x>> \o sorted
    ELSE <<Head(sorted)>> \o InsertSorted(Tail(sorted), x)

RECURSIVE SortInto(_, _)
SortInto(sorted, rest) ==
    IF rest = <<>> THEN sorted
    ELSE SortInto(InsertSorted(sorted, Head(rest)), Tail(rest))

StableSort(s, keys) ==
    LET sorted == SortInto(<<>>, [i \in 1..Len(s) |-> [key |-> keys[i], item |-> s[i]]])
    IN  [i \in 1..Len(s) |-> sorted[i].item]

\* Array.prototype.flatMap(x => x) over a sequence of sequences
RECURSIVE Flatten(_)
Flatten(ss) == IF ss = <<>> THEN <<>> ELSE Head(ss) \o Flatten(Tail(ss))

\* new Map(entries), one set(r.id, r) after the other: a known id keeps its
\* place and takes the new value, a new id goes to the end
RECURSIVE MapSetAll(_, _)
MapSetAll(map, entries) ==
    IF entries = <<>> THEN map
    ELSE LET r == Head(entries)
             hit == {i \in 1..Len(map) : map[i].id = r.id}
         IN  MapSetAll(IF hit = {} THEN Append(map, r)
                       ELSE [map EXCEPT ![CHOOSE i \in hit : TRUE] = r],
                       Tail(entries))

\* no Map: every entry kept
KeepEveryEntry(all) == all

\* Array.from(new Map(all.map((r) => [r.id, r])).values())
MapValuesById(all) == MapSetAll(<<>>, all)

\* -------------------------------------------------------------- promises

Fulfilled(v) == [status |-> "fulfilled", value |-> v]
Rejected == [status |-> "rejected"]

\* Promise.all gone tolerant: the rejected promises are dropped
RECURSIVE FulfilledValues(_)
FulfilledValues(ps) ==
    IF ps = <<>> THEN <<>>
    ELSE (IF Head(ps).status = "rejected" THEN <<>> ELSE <<Head(ps).value>>)
         \o FulfilledValues(Tail(ps))
PromiseAllTolerant(ps) == Fulfilled(FulfilledValues(ps))

\* Promise.all: rejected as soon as one promise is, else the values in order
PromiseAll(ps) ==
    IF \E i \in 1..Len(ps) : ps[i].status = "rejected"
    THEN Rejected
    ELSE Fulfilled([i \in 1..Len(ps) |-> ps[i].value])

\* ---------------------------------------------------------- backing engine

\* An options object or a where clause without keys.
Empty == [k \in {} |-> 0]

\* The documents of S, nearest to the query first; equal distances in id order.
RECURSIVE NearestFirst(_, _)
NearestFirst(S, dist) ==
    IF S = {} THEN <<>>
    ELSE LET d == CHOOSE d \in S : \A e \in S :
                      \/ dist[d.id] < dist[e.id]
                      \/ (dist[d.id] = dist[e.id] /\ d.id <= e.id)
         IN  <<[id |-> d.id, document |-> d.content, metadata |-> d.metadata,
                distance |-> dist[d.id]]>> \o NearestFirst(S \ {d}, dist)

\* where: { sourceType: { $in: [...] } } or { sourceType: t }
Matches(d, where) ==
    \/ "sourceType" \notin DOMAIN where
    \/ d.metadata.sourceType \in where.sourceType

\* collection.query({ queryTexts: [query], nResults, where }): the nResults
\* nearest of the matching documents; dist is the distance of the query to
\* every stored chunk. An engine that refuses a request, nResults = 0 included,
\* is a reply that fails.
CollectionQuery(dist, nResults, where) ==
    Slice(NearestFirst({d \in docs : Matches(d, where)}, dist), nResults)

\* collection.get({ where }): the matching documents, in id order
CollectionGet(where) ==
    NearestFirst({d \in docs : Matches(d, where)}, [i \in {d.id : d \in docs} |-> 0])

\* What the engine does with one request of an operation: it fails at the
\* lazy initialize ("init"), fails at the request itself ("query"), or answers;
\* dist then holds the distances of the query text to the stored chunks.
\* A store without handle may fail to initialize; a handle to a collection that
\* is gone can only fail.
NoDistances == [i \in {d.id : d \in docs} |-> 0]
Failures ==
    {[fail |-> "query", dist |-> NoDistances]}
    \cup (IF collection = "null" THEN {[fail |-> "init", dist |-> NoDistances]} ELSE {})
Replies ==
    Failures
    \cup (IF collection = "null" \/ exists
          THEN {[fail |-> "none", dist |-> f] : f \in [{d.id : d \in docs} -> Distances]}
          ELSE {})
\* the same for a request that involves no query text
PlainReplies ==
    Failures
    \cup (IF collection = "null" \/ exists
          THEN {[fail |-> "none", dist |-> NoDistances]} ELSE {})

\* ------------------------------------------------------------- VectorStore

\* vectorStore.ts:147-152: one SearchResult per hit
SearchResultOf(hit) ==
    [id |-> hit.id, content |-> hit.document, metadata |-> hit.metadata,
     score |-> IF hit.distance # 0 THEN hit.distance ELSE 0]

\* search that treats "no results" as an error
SearchRejectsEmpty(reply, limit, filter) ==
    IF reply.fail # "none" THEN Rejected
    ELSE LET hits == CollectionQuery(reply.dist, limit, filter)
         IN  IF Len(hits) = 0 THEN Rejected
             ELSE Fulfilled([i \in 1..Len(hits) |-> SearchResultOf(hits[i])])

\* VectorStore.search(query, limit, filter)
search(reply, limit, filter) ==
    IF reply.fail # "none" THEN Rejected
    ELSE LET hits == CollectionQuery(reply.dist, limit, filter)
         IN  IF Len(hits) = 0 THEN Fulfilled(<<>>)
             ELSE Fulfilled([i \in 1..Len(hits) |-> SearchResultOf(hits[i])])

\* VectorStore.getDocumentsBySourceType(sourceType)
getDocumentsBySourceType(reply, sourceType) ==
    IF reply.fail # "none" THEN Rejected
    ELSE LET got == CollectionGet([sourceType |-> {sourceType}])
         IN  IF Len(got) = 0 THEN Fulfilled(<<>>)
             ELSE Fulfilled([i \in 1..Len(got) |->
                     [id |-> got[i].id, content |-> got[i].document,
                      metadata |-> got[i].metadata, score |-> PerfectScore]])

\* --------------------------------------------------------------- Retriever

\* Retriever.extractCitations, the loop: one citation per source, seeded by the
\* first result of the source and raised by every later, better one
RECURSIVE CitationMap(_, _)
CitationMap(results, acc) ==
    IF results = <<>> THEN acc
    ELSE LET r == Head(results)
             key == r.metadata.source
             hit == {i \in 1..Len(acc) : acc[i].source = key}
         IN  IF hit = {}
             THEN CitationMap(Tail(results),
                      Append(acc, [id |-> r.id, source |-> r.metadata.source,
                                   sourceType |-> r.metadata.sourceType,
                                   title |-> r.metadata.title,
                                   relevanceScore |-> r.score]))
             ELSE LET i == CHOOSE i \in hit : TRUE
                  IN  CitationMap(Tail(results),
                          IF r.score > acc[i].relevanceScore
                          THEN [acc EXCEPT ![i].relevanceScore = r.score]
                          ELSE acc)

\* extractCitations keyed by chunk: one citation per result
CitationPerResult(results) ==
    StableSort([i \in 1..Len(results) |->
                   [id |-> results[i].id, source |-> results[i].metadata.source,
                    sourceType |-> results[i].metadata.sourceType,
                    title |-> results[i].metadata.title,
                    relevanceScore |-> results[i].score]],
               [i \in 1..Len(results) |-> 0 - results[i].score])

\* extractCitations without the update: the first score seen stays
RECURSIVE FirstSeen(_, _)
FirstSeen(results, acc) ==
    IF results = <<>> THEN acc
    ELSE LET r == Head(results)
         IN  FirstSeen(Tail(results),
                 IF \E i \in 1..Len(acc) : acc[i].source = r.metadata.source THEN acc
                 ELSE Append(acc, [id |-> r.id, source |-> r.metadata.source,
                                   sourceType |-> r.metadata.sourceType,
                                   title |-> r.metadata.title,
                                   relevanceScore |-> r.score]))
CitationFirstSeen(results) ==
    LET citations == FirstSeen(results, <<>>)
    IN  StableSort(citations, [i \in 1..Len(citations) |-> 0 - citations[i].relevanceScore])

\* extractCitations without the final sort: the citations in Map order
CitationsInMapOrder(results) == CitationMap(results, <<>>)

\* Retriever.extractCitations
extractCitations(results) ==
    LET citations == CitationMap(results, <<>>)
    IN  StableSort(citations, [i \in 1..Len(citations) |-> 0 - citations[i].relevanceScore])

Upper(t) ==
    CASE t = "jira" -> "JIRA" [] t = "confluence" -> "CONFLUENCE" [] t = "local" -> "LOCAL"

\* Array.prototype.join over pieces that are themselves sequences of pieces
RECURSIVE Join(_, _)
Join(parts, sep) ==
    IF parts = <<>> THEN <<>>
    ELSE IF Len(parts) = 1 THEN parts[1]
    ELSE parts[1] \o sep \o Join(Tail(parts), sep)

\* a section whose chunks stay in the order of the results
SectionInResultOrder(source, sourceResults) ==
    LET metadata == sourceResults[1].metadata
        header == <<"### ", Upper(metadata.sourceType), ": ",
                    IF metadata.title # "" THEN metadata.title ELSE source>>
        content == Join([i \in 1..Len(sourceResults) |-> <<sourceResults[i].content>>],
                        <<"\n\n">>)
    IN  header \o <<"\n\n">> \o content

\* Retriever.formatContext, one source: header, blank line, the chunks of the
\* source in chunkIndex order
Section(source, sourceResults) ==
    LET metadata == sourceResults[1].metadata
        header == <<"### ", Upper(metadata.sourceType), ": ",
                    IF metadata.title # "" THEN metadata.title ELSE source>>
        sorted == StableSort(sourceResults,
                    [i \in 1..Len(sourceResults) |-> sourceResults[i].metadata.chunkIndex])
        content == Join([i \in 1..Len(sorted) |-> <<sorted[i].content>>], <<"\n\n">>)
    IN  header \o <<"\n\n">> \o content

\* Retriever.formatContext, the grouping loop: the sources in the order of their
\* first result
RECURSIVE SourcesOf(_, _)
SourcesOf(results, seen) ==
    IF results = <<>> THEN seen
    ELSE LET source == Head(results).metadata.source
         IN  SourcesOf(Tail(results),
                       IF \E i \in 1..Len(seen) : seen[i] = source
                       THEN seen ELSE Append(seen, source))

\* Retriever.formatContext
formatContext(results) ==
    IF Len(results) = 0 THEN NoContextText
    ELSE LET sources == SourcesOf(results, <<>>)
             sections == [k \in 1..Len(sources) |->
                            Section(sources[k],
                                    SelectSeq(results, LAMBDA r : r.metadata.source = sources[k]))]
         IN  Join(sections, <<"\n\n---\n\n">>)

\* options.limit / options.minScore / options.sourceTypes with their defaults
LimitOf(options) == IF "limit" \in DOMAIN options THEN options.limit ELSE DefaultLimit
MinScoreOf(options) == IF "minScore" \in DOMAIN options THEN options.minScore ELSE DefaultMinScore
FilterOf(options) ==
    IF "sourceTypes" \in DOMAIN options THEN [sourceType |-> options.sourceTypes] ELSE Empty

\* no filter at all
KeepAllScores(results, minScore) == results

\* retrieve, step 3: results.filter((result) => result.score >= minScore)
FilterByMinScore(results, minScore) == SelectSeq(results, LAMBDA r : r.score >= minScore)

\* A RetrievalContext derived from its final results
ContextOf(query, results) ==
    [query |-> query, results |-> results,
     citations |-> extractCitations(results),
     formattedContext |-> formatContext(results)]

\* Retriever.retrieve, steps 1-3: the filtered results of the search, given the
\* engine's reply
retrievedResults(reply, options) ==
    LET found == search(reply, LimitOf(options), FilterOf(options))
    IN  IF found.status = "rejected" THEN Rejected
        ELSE Fulfilled(FilterByMinScore(found.value, MinScoreOf(options)))

\* Retriever.retrieve(query, options)
retrieve(query, reply, options) ==
    LET filteredResults == retrievedResults(reply, options)
    IN  IF filteredResults.status = "rejected" THEN Rejected
        ELSE Fulfilled(ContextOf(<<query>>, filteredResults.value))

\* options.limit || fallback
LimitOr(options, fallback) ==
    IF "limit" \in DOMAIN options /\ options.limit # 0 THEN options.limit ELSE fallback

\* The merge shared by retrieveWithExpansion and retrieveMultiple: concatenate
\* ctx.results of every context, one entry per chunk id, sort by score
\* descending
MergeResults(contextResults) ==
    LET allResults == Flatten(contextResults)
        uniqueResults == MapValuesById(allResults)
    IN  StableSort(uniqueResults, [i \in 1..Len(uniqueResults) |-> 0 - uniqueResults[i].score])

\* Retriever.retrieveMultiple(queries, options); contexts[i] is the settled
\* promise of this.retrieve(queries[i], options), of which only ctx.results is
\* read
retrieveMultiple(contexts, options) ==
    LET n == Len(contexts)
        all == PromiseAll(contexts)
    IN  IF all.status = "rejected" THEN Rejected
        ELSE Fulfilled(ContextOf([i \in 1..n |-> i],
                 Slice(MergeResults(all.value), LimitOr(options, DefaultMultiLimit))))

\* Retriever.retrieveWithExpansion(query, expansions, options); mainContext is
\* the settled this.retrieve(query, options), expansionContexts[i] the settled
\* this.retrieve(expansions[i], { ...options, limit: 5 })
retrieveWithExpansion(mainContext, expansionContexts, options) ==
    LET all == PromiseAll(expansionContexts)
    IN  IF mainContext.status = "rejected" \/ all.status = "rejected"
        THEN Rejected
        ELSE Fulfilled(ContextOf(<<1>>,
                 Slice(MergeResults(<<mainContext.value>> \o all.value),
                       LimitOr(options, DefaultExpansionLimit))))

\* { ...options, limit: 5 }
ExpansionOptions(options) == [limit |-> ExpansionLimit] @@ options

\* retrieveBySource without its own early return
retrieveBySourceUnguarded(reply, source, sourceType) ==
    LET documents == getDocumentsBySourceType(reply, sourceType)
    IN  IF documents.status = "rejected" THEN Rejected
        ELSE Fulfilled(ContextOf(<<source>>,
                 SelectSeq(documents.value, LAMBDA doc : doc.metadata.source = source)))

\* retrieveBySource without the client-side filter on the source id
retrieveBySourceOfKind(reply, source, sourceType) ==
    LET documents == getDocumentsBySourceType(reply, sourceType)
    IN  IF documents.status = "rejected" THEN Rejected
        ELSE IF Len(documents.value) = 0
             THEN Fulfilled([query |-> <<source>>, results |-> <<>>, citations |-> <<>>,
                             formattedContext |-> NoDocumentsText])
             ELSE Fulfilled(ContextOf(<<source>>, documents.value))

\* Retriever.retrieveBySource(source, sourceType)
retrieveBySource(reply, source, sourceType) ==
    LET documents == getDocumentsBySourceType(reply, sourceType)
    IN  IF documents.status = "rejected" THEN Rejected
        ELSE LET results == SelectSeq(documents.value, LAMBDA doc : doc.metadata.source = source)
             IN  IF Len(results) = 0
                 THEN Fulfilled([query |-> <<source>>, results |-> <<>>, citations |-> <<>>,
                                 formattedContext |-> NoDocumentsText])
                 ELSE Fulfilled(ContextOf(<<source>>, results))

\* ------------------------------------------------------------------ inputs

MinScores == {0, 50}
SourceTypeLists == {{"jira"}}

\* The options objects tried: every key present or absent
Options ==
    {a @@ b @@ c :
        a \in {Empty} \cup {[limit |-> l] : l \in 0..MaxLimit},
        b \in {Empty} \cup {[minScore |-> m] : m \in MinScores},
        c \in {Empty} \cup {[sourceTypes |-> t] : t \in SourceTypeLists}}

\* The ways one this.retrieve(query, options) of a multi-query operation can
\* settle, over every query text and every behaviour of the engine; fail says
\* where the request failed, if it did
Settled(options) ==
    {[fail |-> reply.fail] @@ retrievedResults(reply, options) : reply \in Replies}

\* ------------------------------------------------------------------- state

Idle == [op |-> "idle"]
NoReturn == [status |-> "none"]

\* A new VectorStore over a fresh engine: no handle, no collection
Init ==
    /\ collection = "null"
    /\ exists = FALSE
    /\ docs = {}
    /\ call = Idle
    /\ ret = NoReturn

\* `if (!this.collection) await this.initialize()` over the requests an
\* operation issued: the handle is set, and the collection exists, once the
\* initialize of one of them went through (vectorStore.ts:65-82)
LazyInitialize(requests) ==
    LET opened == collection = "null" /\ \E i \in 1..Len(requests) : requests[i].fail # "init"
    IN  /\ collection' = IF opened THEN "open" ELSE collection
        /\ exists' = (exists \/ opened)

\* The engine and the handle as an operation finds them
Before == [collection |-> collection, exists |-> exists, docs |-> docs]

\* The requests of one initialize(): getCollection, and createCollection when
\* that threw
InitializeRequests(reply) ==
    IF exists /\ reply.fail # "init"
    THEN <<"getCollection">>
    ELSE <<"getCollection", "createCollection">>

\* The requests of `if (!this.collection) await this.initialize()`
LazyRequests(reply) ==
    IF collection = "null" THEN InitializeRequests(reply) ELSE <<>>

\* What the engine does with an initialize(): both requests fail, or one of
\* them answers
InitializeReplies ==
    {[fail |-> f, dist |-> NoDistances] : f \in {"none", "init"}}

\* initialize that drops what it finds and creates the collection anew
initializeRecreating(reply) ==
    IF reply.fail = "init"
    THEN [status |-> "rejected", exists |-> exists, docs |-> docs, created |-> 0]
    ELSE [status |-> "fulfilled", exists |-> TRUE, docs |-> {}, created |-> 1]

\* VectorStore.initialize(): the collection is got if it exists and created if
\* it does not; created counts the collections this call created
initialize(reply) ==
    IF reply.fail = "init"
    THEN [status |-> "rejected", exists |-> exists, docs |-> docs, created |-> 0]
    ELSE [status |-> "fulfilled", exists |-> TRUE, docs |-> docs,
          created |-> IF exists THEN 0 ELSE 1]

\* VectorStore.initialize(), called directly
Initialize ==
    /\ call = Idle
    /\ \E reply \in InitializeReplies :
        LET done == initialize(reply)
        IN  /\ collection' = IF done.status = "fulfilled" THEN "open" ELSE collection
            /\ exists' = done.exists
            /\ docs' = done.docs
            /\ call' = [op |-> "initialize", replies |-> <<reply>>, before |-> Before,
                        requests |-> InitializeRequests(reply), created |-> done.created]
            /\ ret' = IF done.status = "fulfilled" THEN Fulfilled("undefined") ELSE Rejected

\* new VectorStore() in a new process: no handle, the engine as it was
Construct ==
    /\ call = Idle
    /\ collection = "open"
    /\ collection' = "null"
    /\ UNCHANGED <<exists, docs, call, ret>>

\* --------------------------------------------------- metadata of a document

\* A value of a metadata key of type unknown (Document.metadata,
\* [key: string]: unknown), by what the code can observe of it: its typeof
\* ("null" for null), what JSON.stringify makes of it (a text, undefined, or
\* an exception) and String(v).
Value(type, json, str) == [type |-> type, json |-> json, str |-> str]
Undefined == Value("undefined", "undefined", "undefined")
StringValue(str) == Value("string", str, str)

\* undefined, null, a string, a number, a boolean, an array, an object that
\* refers to itself, a BigInt, a function
MetadataValues ==
    { Undefined,
      Value("null", "null", "null"),
      StringValue("open"),
      Value("number", "3", "3"),
      Value("boolean", "true", "true"),
      Value("object", "[login,auth]", "login,auth"),
      Value("object", "throws", "[object Object]"),
      Value("bigint", "throws", "10"),
      Value("function", "undefined", "() => 1") }

\* The keys of type unknown; the other keys of the corpus are declared strings
\* and numbers and hold them
UnknownKeys == {"labels"}

\* The corpus with a metadata key of type unknown on every document
AnnotatedCorpus ==
    {[d EXCEPT !.metadata = [labels |-> v] @@ d.metadata] : d \in Corpus, v \in MetadataValues}

\* try { JSON.stringify(v) } catch { String(v) }
StringifyOrString(v) ==
    IF v.json = "throws" THEN StringValue(v.str)
    ELSE IF v.json = "undefined" THEN Undefined
    ELSE StringValue(v.json)

\* the coercion that stores every unknown value as a string, null and
\* undefined included
CoerceEveryValue(metadata) ==
    [k \in DOMAIN metadata |->
        IF k \notin UnknownKeys THEN metadata[k]
        ELSE IF metadata[k].type \in {"string", "number", "boolean"} THEN metadata[k]
        ELSE StringValue(metadata[k].str)]

\* addDocuments, the loop over Object.entries(doc.metadata): undefined and null
\* are skipped, strings, numbers and booleans kept, the rest stringified
CoerceMetadata(metadata) ==
    LET kept == {k \in DOMAIN metadata :
                    k \in UnknownKeys => metadata[k].type \notin {"undefined", "null"}}
    IN  [k \in kept |->
            IF k \notin UnknownKeys THEN metadata[k]
            ELSE IF metadata[k].type \in {"string", "number", "boolean"} THEN metadata[k]
            ELSE StringifyOrString(metadata[k])]

\* The body of the add request as JSON: a key whose value is undefined is not
\* in it
SentMetadata(metadata) ==
    [k \in {k \in DOMAIN metadata : k \in UnknownKeys => metadata[k] # Undefined} |->
        metadata[k]]

\* What the engine does with an addDocuments: with no documents only the lazy
\* initialize can fail, the add is not asked for
AddReplies(documents) ==
    IF documents # {} THEN PlainReplies
    ELSE {[fail |-> "none", dist |-> NoDistances]}
         \cup (IF collection = "null" THEN {[fail |-> "init", dist |-> NoDistances]} ELSE {})

\* VectorStore.addDocuments(documents), given the engine's reply; the engine
\* keeps the stored document of an id it knows
addDocuments(documents, reply) ==
    LET sent == {[d EXCEPT !.metadata = SentMetadata(CoerceMetadata(d.metadata))]
                    : d \in documents}
    IN  /\ LazyInitialize(<<reply>>)
        /\ docs' = IF reply.fail = "none" /\ documents # {} /\ exists'
                   THEN docs \cup {d \in sent : \A e \in docs : e.id # d.id}
                   ELSE docs
        /\ ret' = IF reply.fail = "none" THEN Fulfilled("undefined") ELSE Rejected

\* The requests of an addDocuments
AddRequests(documents, reply) ==
    LazyRequests(reply)
        \o (IF documents # {} /\ reply.fail # "init" THEN <<"add">> ELSE <<>>)

\* addDocuments with some of the chunks of the corpus
AddDocuments ==
    /\ call = Idle
    /\ \E documents \in SUBSET Corpus :
       \E reply \in AddReplies(documents) :
        /\ addDocuments(documents, reply)
        /\ call' = [op |-> "addDocuments", documents |-> documents, replies |-> <<reply>>,
                    before |-> Before, requests |-> AddRequests(documents, reply)]

\* addDocuments with one chunk that has a metadata value of type unknown
AddAnnotated ==
    /\ call = Idle
    /\ \E d \in AnnotatedCorpus :
       \E reply \in AddReplies({d}) :
        /\ addDocuments({d}, reply)
        /\ call' = [op |-> "addDocuments", documents |-> {d}, replies |-> <<reply>>,
                    before |-> Before, requests |-> AddRequests({d}, reply)]

\* VectorStore.deleteDocuments(ids)
DeleteDocuments ==
    /\ call = Idle
    /\ \E ids \in SUBSET {d.id : d \in Corpus}, reply \in PlainReplies :
        /\ LazyInitialize(<<reply>>)
        /\ docs' = IF reply.fail = "none" THEN {d \in docs : d.id \notin ids} ELSE docs
        /\ call' = [op |-> "deleteDocuments", ids |-> ids, replies |-> <<reply>>,
                    before |-> Before,
                    requests |-> LazyRequests(reply)
                        \o (IF reply.fail # "init" THEN <<"delete">> ELSE <<>>)]
        /\ ret' = IF reply.fail = "none" THEN Fulfilled("undefined") ELSE Rejected

\* What the engine does with a clear(): as for any request, and the
\* createCollection after the drop can fail as well
ClearReplies ==
    PlainReplies
    \cup (IF collection = "null" \/ exists
          THEN {[fail |-> "create", dist |-> NoDistances]} ELSE {})

\* VectorStore.clear(): deleteCollection, then createCollection
Clear ==
    /\ call = Idle
    /\ \E reply \in ClearReplies :
        LET opened == collection = "null" /\ reply.fail # "init"
            dropped == reply.fail \in {"none", "create"}
        IN  /\ collection' = IF opened THEN "open" ELSE collection
            /\ exists' = IF reply.fail = "create" THEN FALSE
                         ELSE IF reply.fail = "none" THEN TRUE
                         ELSE (exists \/ opened)
            /\ docs' = IF dropped THEN {} ELSE docs
            /\ call' = [op |-> "clear", replies |-> <<reply>>, before |-> Before,
                        requests |-> LazyRequests(reply)
                            \o (IF reply.fail = "init" THEN <<>>
                                ELSE IF dropped THEN <<"deleteCollection", "createCollection">>
                                ELSE <<"deleteCollection">>)]
            /\ ret' = IF reply.fail = "none" THEN Fulfilled("undefined") ELSE Rejected

\* VectorStore.count()
count(reply) ==
    IF reply.fail # "none" THEN Rejected ELSE Fulfilled(Cardinality(docs))

\* hasDocuments without its try/catch
hasDocumentsUncaught(reply) ==
    LET counted == count(reply)
    IN  IF counted.status = "rejected" THEN Rejected ELSE Fulfilled(counted.value > 0)

\* VectorStore.hasDocuments()
hasDocuments(reply) ==
    LET counted == count(reply)
    IN  IF counted.status = "rejected" THEN Fulfilled(FALSE)
        ELSE Fulfilled(counted.value > 0)

\* VectorStore.count(), called directly
Count ==
    /\ call = Idle
    /\ \E reply \in PlainReplies :
        /\ LazyInitialize(<<reply>>)
        /\ call' = [op |-> "count", replies |-> <<reply>>, before |-> Before,
                    requests |-> LazyRequests(reply)
                        \o (IF reply.fail # "init" THEN <<"count">> ELSE <<>>)]
        /\ ret' = count(reply)
    /\ UNCHANGED docs

\* VectorStore.hasDocuments()
HasDocuments ==
    /\ call = Idle
    /\ \E reply \in PlainReplies :
        /\ LazyInitialize(<<reply>>)
        /\ call' = [op |-> "hasDocuments", replies |-> <<reply>>, before |-> Before,
                    requests |-> LazyRequests(reply)
                        \o (IF reply.fail # "init" THEN <<"count">> ELSE <<>>)]
        /\ ret' = hasDocuments(reply)
    /\ UNCHANGED docs

\* Retriever.retrieve(query, options)
Retrieve ==
    /\ call = Idle
    /\ \E options \in Options, reply \in Replies :
        /\ call' = [op |-> "retrieve", options |-> options, replies |-> <<reply>>]
        /\ ret' = retrieve(1, reply, options)
        /\ LazyInitialize(<<reply>>)
    /\ UNCHANGED docs

\* Retriever.retrieveMultiple(queries, options)
RetrieveMultiple ==
    /\ call = Idle
    /\ \E options \in Options, n \in 0..MaxQueries :
       \E contexts \in [1..n -> Settled(options)] :
        /\ call' = [op |-> "retrieveMultiple", options |-> options, contexts |-> contexts]
        /\ ret' = retrieveMultiple(contexts, options)
        /\ LazyInitialize(contexts)
    /\ UNCHANGED docs

\* Retriever.retrieveWithExpansion(query, expansions, options): the expansions
\* are searched only after the main query came back
RetrieveWithExpansion ==
    /\ call = Idle
    /\ \E options \in Options, n \in 0..MaxExpansions :
       \E mainContext \in Settled(options),
          expansionContexts \in [1..n -> Settled(ExpansionOptions(options))] :
        /\ mainContext.status = "rejected" => n = 0
        /\ call' = [op |-> "retrieveWithExpansion", options |-> options,
                    contexts |-> <<mainContext>> \o expansionContexts]
        /\ ret' = retrieveWithExpansion(mainContext, expansionContexts, options)
        /\ LazyInitialize(<<mainContext>> \o expansionContexts)
    /\ UNCHANGED docs

\* Retriever.retrieveBySource(source, sourceType)
RetrieveBySource ==
    /\ call = Idle
    /\ \E source \in Sources, sourceType \in SourceTypes, reply \in PlainReplies :
        /\ call' = [op |-> "retrieveBySource", source |-> source,
                    sourceType |-> sourceType, replies |-> <<reply>>,
                    requests |-> LazyRequests(reply)
                        \o (IF reply.fail # "init" THEN <<"get">> ELSE <<>>)]
        /\ ret' = retrieveBySource(reply, source, sourceType)
        /\ LazyInitialize(<<reply>>)
    /\ UNCHANGED docs

\* The caller takes the Retrieval Context (or the error) and moves on
Consume ==
    /\ call # Idle
    /\ call' = Idle
    /\ ret' = NoReturn
    /\ UNCHANGED <<collection, exists, docs>>

\* ---------------------------------------------------------------- chunkText

\* A string is the sequence of the pieces that split(' ') makes of it, which
\* is never empty: '' is one empty piece, and every space more than one
\* between two words is an empty piece. A piece is a word (which one, and its
\* length) and stop says that its last character is one of . ! ? The space is
\* the only whitespace.
Word(word, len, stop) == [word |-> word, len |-> len, stop |-> stop]
EmptyWord == Word(0, 0, FALSE)
EmptyString == <<EmptyWord>>

\* String.prototype.length: the letters of the pieces i to j and the spaces
\* between them
RECURSIVE LenBetween(_, _, _)
LenBetween(s, i, j) ==
    IF i = j THEN s[i].len
    ELSE LET m == (i + j) \div 2
         IN  LenBetween(s, i, m) + 1 + LenBetween(s, m + 1, j)
StrLen(s) == LenBetween(s, 1, Len(s))

\* String.prototype.trim()
RECURSIVE TrimStart(_)
TrimStart(s) ==
    IF Len(s) > 1 /\ Head(s) = EmptyWord THEN TrimStart(Tail(s)) ELSE s
RECURSIVE TrimEnd(_)
TrimEnd(s) ==
    IF Len(s) > 1 /\ s[Len(s)] = EmptyWord THEN TrimEnd(SubSeq(s, 1, Len(s) - 1)) ELSE s
Trim(s) == TrimEnd(TrimStart(s))

\* text.split(/[.!?]\s+/): the first piece that ends a sentence and is
\* followed by a space loses its last character and ends the sentence, and the
\* spaces after it are dropped with it; done holds the sentences before
RECURSIVE SplitFrom(_, _)
SplitFrom(pieces, done) ==
    LET stops == {i \in 1..(Len(pieces) - 1) : pieces[i].stop}
    IN  IF stops = {} THEN Append(done, pieces)
        ELSE LET i == CHOOSE i \in stops : \A j \in stops : i <= j
                 t == pieces[i]
             IN  SplitFrom(TrimStart(SubSeq(pieces, i + 1, Len(pieces))),
                           Append(done, Append(SubSeq(pieces, 1, i - 1),
                                               Word(t.word, t.len - 1, FALSE))))
SplitSentences(text) == SplitFrom(text, <<>>)

\* words.slice(-n): the last n elements, and all of them for n = 0, -0 being 0
SliceLast(words, n) ==
    IF n = 0 \/ n >= Len(words) THEN words
    ELSE SubSeq(words, Len(words) - n + 1, Len(words))

\* the loop over the sentences without the push after it: what is left in
\* currentChunk at the end is dropped
RECURSIVE ChunkLoopUnflushed(_, _, _, _, _)
ChunkLoopUnflushed(sentences, chunks, currentChunk, maxChunkSize, overlap) ==
    IF sentences = <<>> THEN chunks
    ELSE LET sentence == Head(sentences)
         IN  IF StrLen(currentChunk) + StrLen(sentence) > maxChunkSize
                    /\ StrLen(currentChunk) > 0
             THEN ChunkLoopUnflushed(Tail(sentences), Append(chunks, Trim(currentChunk)),
                                     SliceLast(currentChunk, overlap \div 5) \o sentence,
                                     maxChunkSize, overlap)
             ELSE ChunkLoopUnflushed(Tail(sentences), chunks,
                                     IF StrLen(currentChunk) > 0 THEN currentChunk \o sentence
                                     ELSE sentence,
                                     maxChunkSize, overlap)

\* chunkText, the loop over the sentences and the push after it, started with
\* a given currentChunk
RECURSIVE ChunkLoop(_, _, _, _, _)
ChunkLoop(sentences, chunks, currentChunk, maxChunkSize, overlap) ==
    IF sentences = <<>>
    THEN IF StrLen(Trim(currentChunk)) > 0 THEN Append(chunks, Trim(currentChunk)) ELSE chunks
    ELSE LET sentence == Head(sentences)
         IN  IF StrLen(currentChunk) + StrLen(sentence) > maxChunkSize
                    /\ StrLen(currentChunk) > 0
             THEN ChunkLoop(Tail(sentences), Append(chunks, Trim(currentChunk)),
                            SliceLast(currentChunk, overlap \div 5) \o sentence,
                            maxChunkSize, overlap)
             ELSE ChunkLoop(Tail(sentences), chunks,
                            IF StrLen(currentChunk) > 0 THEN currentChunk \o sentence
                            ELSE sentence,
                            maxChunkSize, overlap)

\* chunkText, the loop over the sentences, as the list of the times it closes a
\* chunk: the buffer it closes, the sentence that made it close it, and the
\* buffer it goes on with
RECURSIVE ChunkCloses(_, _, _, _)
ChunkCloses(sentences, currentChunk, maxChunkSize, overlap) ==
    IF sentences = <<>> THEN <<>>
    ELSE LET sentence == Head(sentences)
         IN  IF StrLen(currentChunk) + StrLen(sentence) > maxChunkSize
                    /\ StrLen(currentChunk) > 0
             THEN LET seeded == SliceLast(currentChunk, overlap \div 5) \o sentence
                  IN  <<[closed |-> currentChunk, sentence |-> sentence, seeded |-> seeded]>>
                      \o ChunkCloses(Tail(sentences), seeded, maxChunkSize, overlap)
             ELSE ChunkCloses(Tail(sentences),
                              IF StrLen(currentChunk) > 0 THEN currentChunk \o sentence
                              ELSE sentence,
                              maxChunkSize, overlap)

\* chunkText that goes on from what the call before it left: its last chunk is
\* the currentChunk it starts with
chunkTextResumed(text, maxChunkSize, overlap) ==
    ChunkLoop(SplitSentences(text), <<>>,
              IF ret.status = "fulfilled" /\ Len(ret.value) > 0
              THEN ret.value[Len(ret.value)] ELSE EmptyString,
              maxChunkSize, overlap)

\* chunkText(text, maxChunkSize, overlap)
chunkText(text, maxChunkSize, overlap) ==
    ChunkLoop(SplitSentences(text), <<>>, EmptyString, maxChunkSize, overlap)

\* The pieces the short texts are made of: nothing (a second space), "aa",
\* "bbb", "aa." and "."
Pieces ==
    {EmptyWord, Word(1, 2, FALSE), Word(2, 3, FALSE), Word(1, 3, TRUE), Word(0, 1, TRUE)}

\* The texts of up to MaxPieces pieces
ShortTexts == UNION {[1..n -> Pieces] : n \in 1..MaxPieces}

\* m sentences of k words of w letters, joined by ". " and ended by ".": the
\* last word of a sentence has its period
Document(w, k, m) ==
    [i \in 1..(k * m) |-> IF i % k = 0 THEN Word(2, w + 1, TRUE) ELSE Word(1, w, FALSE)]

\* Documents of 2400 characters: 49 sentences of 48 characters, made of words
\* of 3, 5 and 7 letters
Documents == {Document(3, 12, 49), Document(5, 8, 49), Document(7, 6, 49)}

\* The calls of chunkText tried: the short texts with small sizes and overlaps
\* below, at and above the length of a word, the documents with the defaults
ChunkInputs ==
    {[text |-> t, maxChunkSize |-> m, overlap |-> o] :
        t \in ShortTexts, m \in {4, 6}, o \in {0, 3, 5, 10}}
    \cup {[text |-> t, maxChunkSize |-> DefaultMaxChunkSize, overlap |-> DefaultOverlap] :
            t \in Documents}

\* chunkText(text, maxChunkSize, overlap)
ChunkText ==
    /\ call = Idle
    /\ \E input \in ChunkInputs :
        /\ call' = [op |-> "chunkText", earlier |-> <<>>] @@ input
        /\ ret' = Fulfilled(chunkText(input.text, input.maxChunkSize, input.overlap))
    /\ UNCHANGED <<collection, exists, docs>>

\* chunkText called once more with the arguments of the call before
Rechunk ==
    /\ call.op = "chunkText"
    /\ call.earlier = <<>>
    /\ call' = [call EXCEPT !.earlier = <<ret.value>>]
    /\ ret' = Fulfilled(chunkText(call.text, call.maxChunkSize, call.overlap))
    /\ UNCHANGED <<collection, exists, docs>>

\* ------------------------------------------------- loaders, indexDocuments

\* What a loader can be asked for: an issue by its key, a page by its id, a
\* file by its path. A path is dir * 10 + name.
Loadable(sourceType, source) == [sourceType |-> sourceType, source |-> source]

\* path.basename(filePath)
Basename(filePath) == filePath % 10

\* url.match(/pageId=(\d+)/): a URL either has a page id or has none
Url(pageId) == [match |-> TRUE, pageId |-> pageId]
UrlWithoutPageId == [match |-> FALSE, pageId |-> 0]

\* The full content a loader builds for a source: two sentences, and for the
\* first page twelve sentences of one word of 99 letters, which makes three
\* chunks
FullContent(item) ==
    IF item = Loadable("confluence", 1) THEN Document(99, 1, 12)
    ELSE <<Word(1, 2, FALSE), Word(1, 3, TRUE), Word(2, 3, FALSE)>>

\* fetchIssue / fetchPage / loadText, after the content is there: chunk it and
\* make one Document per chunk, `${sourceType}-${source}-${index}` its id; the
\* timestamp and the fields specific to a kind are left out
DocumentsOf(item) ==
    LET chunks == chunkText(FullContent(item), DefaultMaxChunkSize, DefaultOverlap)
        key == IF item.sourceType = "local" THEN Basename(item.source) ELSE item.source
    IN  [i \in 1..Len(chunks) |->
            [id |-> <<item.sourceType, key, i - 1>>,
             content |-> chunks[i],
             metadata |-> [source |-> key, sourceType |-> item.sourceType,
                           filePath |-> IF item.sourceType = "local" THEN item.source ELSE 0,
                           title |-> "", chunkIndex |-> i - 1,
                           totalChunks |-> Len(chunks)]]]

\* fetchIssue(issueKey), fetchPage(pageId), loadFile(filePath): the documents
\* of the source, or the error of the request or of the read
Load(item, failing) ==
    IF item \in failing THEN Rejected ELSE Fulfilled(DocumentsOf(item))

\* fetchIssues, fetchPages, loadFiles: a source that fails is skipped
RECURSIVE LoadEach(_, _)
LoadEach(items, failing) ==
    IF items = <<>> THEN <<>>
    ELSE LET documents == Load(Head(items), failing)
         IN  (IF documents.status = "rejected" THEN <<>> ELSE documents.value)
             \o LoadEach(Tail(items), failing)

\* JiraLoader.searchIssues(jql): the search, then fetchIssues over the keys
\* found, which are the issue after the listed ones
searchIssues(failing) ==
    IF Loadable("jql", 0) \in failing THEN Rejected
    ELSE Fulfilled(LoadEach(<<Loadable("jira", MaxItems + 1)>>, failing))

\* ConfluenceLoader.fetchPageByUrl(url)
fetchPageByUrl(url, failing) ==
    IF ~url.match THEN Rejected
    ELSE Load(Loadable("confluence", url.pageId), failing)

\* indexDocuments, `for (const url of config.confluence.urls)`: the first URL
\* that fails ends the loop with its error
RECURSIVE LoadUrls(_, _)
LoadUrls(urls, failing) ==
    IF urls = <<>> THEN Fulfilled(<<>>)
    ELSE LET documents == fetchPageByUrl(Head(urls), failing)
             others == LoadUrls(Tail(urls), failing)
         IN  IF documents.status = "rejected" \/ others.status = "rejected" THEN Rejected
             ELSE Fulfilled(documents.value \o others.value)

\* RAG.indexDocuments, up to the add: the documents of the Jira issues listed
\* and found, of the Confluence pages listed by id and by URL and of the local
\* files, in that order; the first step that throws ends it. env says whether
\* Jira and Confluence are configured.
allDocuments(config, env, failing) ==
    LET part(wanted, documents) == IF wanted THEN documents ELSE Fulfilled(<<>>)
        parts == <<
            part("issues" \in DOMAIN config /\ env.jira,
                 Fulfilled(LoadEach([i \in 1..Len(config.issues) |->
                                        Loadable("jira", config.issues[i])], failing))),
            part("jql" \in DOMAIN config /\ env.jira, searchIssues(failing)),
            part("pageIds" \in DOMAIN config /\ env.confluence,
                 Fulfilled(LoadEach([i \in 1..Len(config.pageIds) |->
                                        Loadable("confluence", config.pageIds[i])], failing))),
            part("urls" \in DOMAIN config /\ env.confluence, LoadUrls(config.urls, failing)),
            part("files" \in DOMAIN config,
                 Fulfilled(LoadEach([i \in 1..Len(config.files) |->
                                        Loadable("local", config.files[i])], failing))) >>
        all == PromiseAll(parts)
    IN  IF all.status = "rejected" THEN Rejected ELSE Fulfilled(Flatten(all.value))

\* The source configurations tried: every list present or absent; the ids
\* listed, the pages the URLs name and the paths of the files are all
\* different; the files are in one directory, or two of the same name in two
\* directories
Configs ==
    {a @@ b @@ c @@ d @@ e :
        a \in {Empty, [issues |-> [i \in 1..MaxItems |-> i]]},
        b \in {Empty, [jql |-> "project = WEB"]},
        c \in {Empty, [pageIds |-> [i \in 1..MaxItems |-> i]]},
        d \in {Empty, [urls |-> [i \in 1..MaxItems |-> Url(MaxItems + i)]],
                      [urls |-> <<UrlWithoutPageId, Url(MaxItems + 1)>>]},
        e \in {Empty, [files |-> [i \in 1..MaxItems |-> 11 * i]],
                      [files |-> <<11, 21>>]}}

\* The sources a configuration makes the loaders ask for
Wanted(config) ==
    (IF "issues" \in DOMAIN config
     THEN {Loadable("jira", config.issues[i]) : i \in 1..Len(config.issues)} ELSE {})
    \cup (IF "jql" \in DOMAIN config
          THEN {Loadable("jql", 0), Loadable("jira", MaxItems + 1)} ELSE {})
    \cup (IF "pageIds" \in DOMAIN config
          THEN {Loadable("confluence", config.pageIds[i]) : i \in 1..Len(config.pageIds)}
          ELSE {})
    \cup (IF "urls" \in DOMAIN config
          THEN {Loadable("confluence", config.urls[i].pageId) :
                    i \in {j \in 1..Len(config.urls) : config.urls[j].match}}
          ELSE {})
    \cup (IF "files" \in DOMAIN config
          THEN {Loadable("local", config.files[i]) : i \in 1..Len(config.files)}
          ELSE {})

\* The engine given a batch in which an id occurs twice: if it takes the
\* batch, it keeps the first document of the id
FirstOfId(batch) ==
    {i \in 1..Len(batch) : \A j \in 1..(i - 1) : batch[j].id # batch[i].id}

\* RAG.indexDocuments(config), on a collection of at most MaxStored chunks, at
\* most MaxFailing of the sources failing to load; batch is what is handed to
\* addDocuments
IndexDocuments ==
    /\ call = Idle
    /\ Cardinality(docs) <= MaxStored
    /\ \E config \in Configs, jira \in BOOLEAN, confluence \in BOOLEAN :
       \E failing \in {f \in SUBSET Wanted(config) : Cardinality(f) <= MaxFailing} :
       \E loaded \in {allDocuments(config, [jira |-> jira, confluence |-> confluence],
                                   failing)} :
       \E documents \in {IF loaded.status = "rejected" THEN {}
                         ELSE {loaded.value[i] : i \in FirstOfId(loaded.value)}} :
       \E reply \in (IF documents = {} THEN {[fail |-> "none", dist |-> NoDistances]}
                     ELSE AddReplies(documents)) :
            /\ IF documents # {} THEN addDocuments(documents, reply)
               ELSE /\ UNCHANGED <<collection, exists, docs>>
                    /\ ret' = IF loaded.status = "rejected" THEN Rejected
                              ELSE Fulfilled("undefined")
            /\ call' = [op |-> "indexDocuments", config |-> config,
                        env |-> [jira |-> jira, confluence |-> confluence],
                        failing |-> failing, replies |-> <<reply>>, before |-> Before,
                        batch |-> IF loaded.status = "rejected" THEN <<>>
                                  ELSE loaded.value]

\* ------------------------------------- retrieveMultiple, search by search

\* One this.retrieve(query, options) of a retrieveMultiple in flight: pc is the
\* request it waits for ("settled" when it has none), initialized says that it
\* ran initialize(), settled is its promise
Task(pc, initialized) ==
    [pc |-> pc, initialized |-> initialized, fail |-> "none", settled |-> NoReturn]

\* The options given to the calls that are followed search by search
RaceOptions == {Empty, [limit |-> 1, minScore |-> 0]}

\* the promises in completion order
JoinedAsCompleted(tasks, order) == [k \in 1..Len(order) |-> tasks[order[k]].settled]

\* What Promise.all hands on: the promises in the order of the queries
Joined(tasks, order) == [i \in 1..Len(tasks) |-> tasks[i].settled]

\* await Promise.all(queries.map(...)) and the rest of retrieveMultiple, after
\* a search settled: the call rejects with the first search that does, and
\* merges once all are fulfilled
Rejoin(tasks, order, options) ==
    IF ret # NoReturn THEN ret
    ELSE IF \E i \in 1..Len(tasks) : tasks[i].settled.status = "rejected" THEN Rejected
    ELSE IF \A i \in 1..Len(tasks) : tasks[i].pc = "settled"
         THEN retrieveMultiple(Joined(tasks, order), options)
    ELSE ret

\* retrieveMultiple(queries, options), up to the first await: queries.map
\* starts every retrieve, each runs into search and issues its first request,
\* getCollection if the store has no handle and the query if it has one
StartMultiple ==
    /\ call = Idle
    /\ \E options \in RaceOptions, n \in 1..MaxQueries :
        call' = [op |-> "retrieveMultiple", options |-> options, order |-> <<>>,
                 before |-> Before, queries |-> n,
                 tasks |-> [i \in 1..n |->
                              IF collection = "null" THEN Task("getCollection", TRUE)
                              ELSE Task("query", FALSE)]]
    /\ UNCHANGED <<collection, exists, docs, ret>>

\* a task of the call in flight settles or goes on to its next request
Advance(i, task) ==
    LET tasks == [call.tasks EXCEPT ![i] = task]
        order == IF task.pc = "settled" THEN Append(call.order, i) ELSE call.order
    IN  /\ call' = [call EXCEPT !.tasks = tasks, !.order = order]
        /\ ret' = Rejoin(tasks, order, call.options)

InFlight == call.op = "retrieveMultiple" /\ "tasks" \in DOMAIN call

\* initialize(), the answer to getCollection: the handle is set if the
\* collection is there, and createCollection is asked for if the request threw
GetCollectionReply ==
    /\ InFlight
    /\ \E i \in 1..Len(call.tasks) :
        /\ call.tasks[i].pc = "getCollection"
        /\ IF exists
           THEN /\ collection' = "open"
                /\ Advance(i, [call.tasks[i] EXCEPT !.pc = "query"])
           ELSE /\ collection' = collection
                /\ Advance(i, [call.tasks[i] EXCEPT !.pc = "createCollection"])
    /\ UNCHANGED <<exists, docs>>

\* initialize(), the answer to createCollection: the engine creates the
\* collection, refuses to because the name is taken, or cannot be reached
CreateCollectionReply ==
    /\ InFlight
    /\ \E i \in 1..Len(call.tasks), reached \in BOOLEAN :
        /\ call.tasks[i].pc = "createCollection"
        /\ IF reached /\ ~exists
           THEN /\ collection' = "open"
                /\ exists' = TRUE
                /\ Advance(i, [call.tasks[i] EXCEPT !.pc = "query"])
           ELSE /\ UNCHANGED <<collection, exists>>
                /\ Advance(i, [call.tasks[i] EXCEPT
                                 !.pc = "settled", !.settled = Rejected,
                                 !.fail = IF reached THEN "exists" ELSE "init"])
    /\ UNCHANGED docs

\* search and retrieve, the answer to collection.query
QueryReply ==
    /\ InFlight
    /\ \E i \in 1..Len(call.tasks) :
        /\ call.tasks[i].pc = "query"
        /\ \E reply \in {[fail |-> "query", dist |-> NoDistances]}
                \cup (IF exists
                      THEN {[fail |-> "none", dist |-> f] :
                                f \in [{d.id : d \in docs} -> Distances]}
                      ELSE {}) :
            Advance(i, [call.tasks[i] EXCEPT
                          !.pc = "settled", !.fail = reply.fail,
                          !.settled = retrievedResults(reply, call.options)])
    /\ UNCHANGED <<collection, exists, docs>>

\* The caller moves on when nothing of the call is in flight any more
Resume ==
    /\ InFlight => \A i \in 1..Len(call.tasks) : call.tasks[i].pc = "settled"
    /\ Consume

Next ==
    \/ Initialize
    \/ Construct
    \/ AddDocuments
    \/ DeleteDocuments
    \/ Clear
    \/ Count
    \/ HasDocuments
    \/ Retrieve
    \/ RetrieveMultiple
    \/ RetrieveWithExpansion
    \/ RetrieveBySource
    \/ Consume

Spec == Init /\ [][Next]_vars

\* retrieveMultiple with its searches interleaved, on a store that was filled
\* and on a new one
RaceNext ==
    \/ AddDocuments
    \/ Construct
    \/ StartMultiple
    \/ GetCollectionReply
    \/ CreateCollectionReply
    \/ QueryReply
    \/ Resume

RaceSpec == Init /\ [][RaceNext]_vars

\* The chunker on its own
ChunkNext ==
    \/ ChunkText
    \/ Rechunk
    \/ Consume

ChunkSpec == Init /\ [][ChunkNext]_vars

\* Ingestion on its own
IndexNext ==
    \/ IndexDocuments
    \/ Consume

IndexSpec == Init /\ [][IndexNext]_vars

\* The store fed with metadata of every type
MetadataNext ==
    \/ AddAnnotated
    \/ Consume

MetadataSpec == Init /\ [][MetadataNext]_vars

\* ------------------------------------------------------------------ claims

ScoredOps == {"retrieve", "retrieveMultiple", "retrieveWithExpansion"}
MergeOps == {"retrieveMultiple", "retrieveWithExpansion"}
RetrievalOps == ScoredOps \cup {"retrieveBySource"}

\* the operation returned a Retrieval Context
Returned(ops) == call.op \in ops /\ ret.status = "fulfilled"

\* no request of the operation failed
NoFailure ==
    IF call.op \in MergeOps
    THEN \A i \in 1..Len(call.contexts) : call.contexts[i].fail = "none"
    ELSE \A i \in 1..Len(call.replies) : call.replies[i].fail = "none"

\* the chunk ids of a sequence of results
IdsOf(results) == {results[i].id : i \in 1..Len(results)}

\* C1: every result of a Retrieval Context returned by retrieve,
\* retrieveMultiple or retrieveWithExpansion has score >= minScore, 0.3 when
\* minScore is omitted.
C1_ThresholdInvariant ==
    Returned(ScoredOps) =>
        \A i \in 1..Len(ret.value.results) :
            ret.value.results[i].score >=
                (IF "minScore" \in DOMAIN call.options THEN call.options.minScore ELSE 30)

\* retrieve with the default minScore over three chunks, at 0.2, 0.4 and 0.9:
\* the first is dropped, the other two are returned
C1_Witness ==
    /\ Returned({"retrieve"})
    /\ DOMAIN call.options = {}
    /\ Cardinality(docs) = 3
    /\ {call.replies[1].dist[d.id] : d \in docs} = {20, 40, 90}
    /\ Len(ret.value.results) = 2

\* C2: the number of results is at most options.limit, or at most the default
\* of the operation (10, 15, 10) when limit is omitted.
C2_LimitInvariant ==
    Returned(ScoredOps) =>
        Len(ret.value.results) <=
            (IF "limit" \in DOMAIN call.options THEN call.options.limit
             ELSE IF call.op = "retrieveMultiple" THEN 15 ELSE 10)

\* C3: scores are higher-is-better: of two results of one query, the chunk
\* nearer to the query (smaller distance) never has the lower score.
C3_HigherIsBetter ==
    Returned({"retrieve"}) =>
        \A i, j \in 1..Len(ret.value.results) :
            call.replies[1].dist[ret.value.results[i].id]
                < call.replies[1].dist[ret.value.results[j].id]
            => ret.value.results[i].score >= ret.value.results[j].score

\* C4: retrieveWithExpansion returns a chunk found by several of its queries
\* exactly once, with the highest of the scores it got.
C4_ExpansionKeepsBestScore ==
    Returned({"retrieveWithExpansion"}) =>
        \A i \in 1..Len(ret.value.results) :
            LET r == ret.value.results[i]
            IN  /\ \A j \in 1..Len(ret.value.results) : ret.value.results[j].id = r.id => j = i
                /\ \A k \in 1..Len(call.contexts) : \A m \in 1..Len(call.contexts[k].value) :
                       call.contexts[k].value[m].id = r.id
                       => call.contexts[k].value[m].score <= r.score

\* C5: no two results returned by retrieveMultiple or retrieveWithExpansion
\* have the same chunk id.
C5_NoDuplicateChunkIds ==
    Returned(MergeOps) =>
        \A i, j \in 1..Len(ret.value.results) :
            ret.value.results[i].id = ret.value.results[j].id => i = j

\* retrieveMultiple over two queries that both found the same chunk, which is
\* in the output
C5_Witness ==
    /\ Returned({"retrieveMultiple"})
    /\ Len(call.contexts) = 2
    /\ IdsOf(call.contexts[1].value) \cap IdsOf(call.contexts[2].value)
           \cap IdsOf(ret.value.results) # {}

\* C6: the citations of a Retrieval Context are one per source id of its
\* results: no two share a source, every source of a result has one, and no
\* citation is for a source without result.
C6_CitationsMatchSources ==
    Returned(RetrievalOps) =>
        LET cs == ret.value.citations
            rs == ret.value.results
        IN  /\ \A i, j \in 1..Len(cs) : cs[i].source = cs[j].source => i = j
            /\ {cs[i].source : i \in 1..Len(cs)} = {rs[i].metadata.source : i \in 1..Len(rs)}

\* retrieveMultiple with limit 2: both chunks of source A are kept, the chunk
\* of source B found by a query is truncated away, and A has the one citation
C6_Witness ==
    /\ Returned({"retrieveMultiple"})
    /\ Len(ret.value.results) = 2
    /\ \A i \in 1..2 : ret.value.results[i].metadata.source = "A"
    /\ \E k \in 1..Len(call.contexts) : \E m \in 1..Len(call.contexts[k].value) :
           call.contexts[k].value[m].metadata.source = "B"
    /\ Len(ret.value.citations) = 1

\* C7: the relevance score of each citation is the maximum score among the
\* results of its source.
C7_CitationMaxScore ==
    Returned(RetrievalOps) =>
        LET cs == ret.value.citations
            rs == ret.value.results
        IN  \A i \in 1..Len(cs) :
                /\ \E j \in 1..Len(rs) : /\ rs[j].metadata.source = cs[i].source
                                         /\ rs[j].score = cs[i].relevanceScore
                /\ \A j \in 1..Len(rs) : rs[j].metadata.source = cs[i].source
                                         => rs[j].score <= cs[i].relevanceScore

\* source A with chunk scores 0.4 and 0.9 and source B with 0.2, default
\* minScore: only the chunks of A survive, the lower one first, and the one
\* citation is for A with score 0.9
C7_Witness ==
    /\ Returned({"retrieve"})
    /\ "minScore" \notin DOMAIN call.options
    /\ \E d \in docs : d.metadata.source = "B" /\ call.replies[1].dist[d.id] = 20
    /\ Len(ret.value.results) = 2
    /\ ret.value.results[1].metadata.source = "A" /\ ret.value.results[1].score = 40
    /\ ret.value.results[2].metadata.source = "A" /\ ret.value.results[2].score = 90
    /\ Len(ret.value.citations) = 1
    /\ ret.value.citations[1].source = "A"
    /\ ret.value.citations[1].relevanceScore = 90

\* C8: on an empty collection search returns an empty sequence without error,
\* and retrieve returns no results, no citations and the "no context" sentinel.
C8_EmptyIndex ==
    (call.op = "retrieve" /\ docs = {} /\ NoFailure) =>
        /\ ret.status = "fulfilled"
        /\ Len(ret.value.results) = 0
        /\ Len(ret.value.citations) = 0
        /\ ret.value.formattedContext = <<"No relevant context found.">>
        /\ search(call.replies[1], LimitOf(call.options), FilterOf(call.options))
               = Fulfilled(<<>>)

\* retrieve answered by the engine for a collection that exists and is empty
C8_Witness ==
    /\ call.op = "retrieve" /\ NoFailure
    /\ exists /\ docs = {}
    /\ ret.status = "fulfilled"

\* C9, as claimed: every retrieval operation that ends with zero results
\* returns, without error, empty results and citations and one and the same
\* "no context" sentinel as formatted text.
C9_OneSentinel ==
    (call.op \in RetrievalOps /\ NoFailure) =>
        /\ ret.status = "fulfilled"
        /\ Len(ret.value.results) = 0 =>
              /\ Len(ret.value.citations) = 0
              /\ ret.value.formattedContext = <<"No relevant context found.">>

\* C9, amended: every retrieval operation that ends with zero results returns,
\* without error, empty results and citations and a fixed sentinel as formatted
\* text: "No relevant context found." from retrieve, retrieveMultiple and
\* retrieveWithExpansion, "No documents found for this source." from
\* retrieveBySource.
C9_SentinelPerOperation ==
    (call.op \in RetrievalOps /\ NoFailure) =>
        /\ ret.status = "fulfilled"
        /\ Len(ret.value.results) = 0 =>
              /\ Len(ret.value.citations) = 0
              /\ ret.value.formattedContext =
                    (IF call.op = "retrieveBySource"
                     THEN <<"No documents found for this source.">>
                     ELSE <<"No relevant context found.">>)

\* retrieveBySource for a source without chunks in a collection that has some
C9_Witness ==
    /\ Returned({"retrieveBySource"})
    /\ docs # {}
    /\ Len(ret.value.results) = 0

\* C10: when the search of one query of retrieveMultiple or
\* retrieveWithExpansion fails, the call fails: no Retrieval Context is built
\* from the results of the other queries.
C10_NoPartialResults ==
    (call.op \in MergeOps
        /\ \E i \in 1..Len(call.contexts) : call.contexts[i].status = "rejected")
    => ret.status = "rejected"

\* retrieveMultiple whose first query found chunks and whose second failed
C10_Witness ==
    /\ call.op = "retrieveMultiple"
    /\ Len(call.contexts) = 2
    /\ call.contexts[1].status = "fulfilled" /\ Len(call.contexts[1].value) > 0
    /\ call.contexts[2].status = "rejected"
    /\ ret.status = "rejected"

\* The operations of the store other than hasDocuments; retrieve stands for
\* search and retrieveBySource for getDocumentsBySourceType, whose errors they
\* pass on
PropagatingOps ==
    {"initialize", "addDocuments", "deleteDocuments", "clear", "count",
     "retrieve", "retrieveBySource"}

C17_EmptyAddIsNoOp ==
    (call.op = "addDocuments" /\ call.documents = {}) =>
        /\ call.requests = <<>>
        /\ Before = call.before

\* C19: initialize is idempotent: an initialize the engine answers succeeds
\* and leaves the handle set, the collection existing and its documents as
\* they were; it creates the collection when there was none and creates none
\* when there was one, initialized before or not.
C19_InitializeIdempotent ==
    (call.op = "initialize" /\ NoFailure) =>
        /\ ret.status = "fulfilled"
        /\ collection = "open" /\ exists
        /\ docs = call.before.docs
        /\ call.created = (IF call.before.exists THEN 0 ELSE 1)

\* a second initialize on a store whose collection holds documents
C19_Witness ==
    /\ call.op = "initialize"
    /\ call.before.collection = "open" /\ call.before.exists
    /\ call.before.docs # {}
    /\ ret.status = "fulfilled"
    /\ call.created = 0

\* C20: retrieveBySource asks the engine for no similarity search; its results
\* are the stored chunks of that source kind and that source id, each once and
\* with score 1.0, and its one citation, if any, has score 1.0.
C20_BySourceExactListing ==
    Returned({"retrieveBySource"}) =>
        LET rs == ret.value.results
            cs == ret.value.citations
            wanted == {d \in docs : /\ d.metadata.sourceType = call.sourceType
                                    /\ d.metadata.source = call.source}
        IN  /\ \A i \in 1..Len(call.requests) : call.requests[i] # "query"
            /\ \A i, j \in 1..Len(rs) : rs[i].id = rs[j].id => i = j
            /\ {[id |-> rs[i].id, content |-> rs[i].content, metadata |-> rs[i].metadata]
                    : i \in 1..Len(rs)} = wanted
            /\ \A i \in 1..Len(rs) : rs[i].score = 100
            /\ Len(cs) = (IF wanted = {} THEN 0 ELSE 1)
            /\ \A i \in 1..Len(cs) : cs[i].relevanceScore = 100

\* the two chunks of source A listed from a collection that also holds the
\* chunk of source B
C20_Witness ==
    /\ Returned({"retrieveBySource"})
    /\ call.source = "A" /\ call.sourceType = "jira"
    /\ docs = Corpus
    /\ Len(ret.value.results) = 2
    /\ Len(ret.value.citations) = 1

SharesWordRun(a, b) ==
    \E n \in 1..Min(Len(a), Len(b)) :
        /\ SubSeq(a, Len(a) - n + 1, Len(a)) = SubSeq(b, 1, n)
        /\ \E i \in 1..n : b[i].len > 0

\* the sentences of the text handed to chunkText
SentencesOfCall == SplitSentences(call.text)

\* C13: when chunkText is given an overlap > 0 and returns more than one chunk,
\* every chunk ends with a non-empty run of words with which the chunk after
\* it begins.
C13_AdjacentChunksOverlap ==
    (call.op = "chunkText" /\ call.overlap > 0 /\ Len(ret.value) > 1) =>
        \A i \in 1..(Len(ret.value) - 1) : SharesWordRun(ret.value[i], ret.value[i + 1])

\* C14: when no sentence of the text is longer than maxChunkSize, no chunk
\* returned by chunkText is longer than maxChunkSize, whatever the overlap.
C14_ChunksBounded ==
    (call.op = "chunkText"
        /\ \A i \in 1..Len(SentencesOfCall) : StrLen(SentencesOfCall[i]) <= call.maxChunkSize)
    => \A i \in 1..Len(ret.value) : StrLen(ret.value[i]) <= call.maxChunkSize

C16_ThreeChunks ==
    (call.op = "chunkText"
        /\ call.maxChunkSize = 1000 /\ call.overlap = 200
        /\ StrLen(call.text) = 2400
        /\ \A i \in 1..Len(SentencesOfCall) : StrLen(SentencesOfCall[i]) <= 100)
    => Len(ret.value) = 3

\* the sources of the call that a configured loader is asked for and that load
LoadedOfCall ==
    {item \in Wanted(call.config) \ call.failing :
        /\ item.sourceType # "jql"
        /\ item.sourceType = "jira" => call.env.jira
        /\ item.sourceType = "confluence" => call.env.confluence}

\* C12: when a Jira issue, a Confluence page id, a Confluence URL or a local
\* file fails to load during indexDocuments, the call still succeeds and the
\* chunks of every source that did load are added to the index (the Jira
\* search and the store answering).
C12_FailedItemIsSkipped ==
    (call.op = "indexDocuments" /\ NoFailure /\ Loadable("jql", 0) \notin call.failing)
    => /\ ret.status = "fulfilled"
       /\ \A item \in LoadedOfCall :
            \A i \in 1..Len(DocumentsOf(item)) :
                \E d \in docs : d.id = DocumentsOf(item)[i].id

\* the places of a chunk text in a formatted text
PlacesOf(content, text) == {p \in 1..Len(text) : text[p] = content}

\* the place of the first result of a source in the results
FirstOf(source, results) ==
    CHOOSE i \in 1..Len(results) :
        /\ results[i].metadata.source = source
        /\ \A j \in 1..(i - 1) : results[j].metadata.source # source

\* C21: the formatted text of a non-empty Retrieval Context holds the text of
\* every result exactly once; the text of a result comes before the text of
\* another result when both have the same source and the first has the smaller
\* chunk index, or when their sources differ and the source of the first occurs
\* first in the results.
C21_TwoLevelOrder ==
    (Returned(RetrievalOps) /\ Len(ret.value.results) > 0) =>
        LET results == ret.value.results
            text == ret.value.formattedContext
            place(i) == CHOOSE p \in PlacesOf(results[i].content, text) : TRUE
        IN  /\ \A i \in 1..Len(results) :
                Cardinality(PlacesOf(results[i].content, text)) = 1
            /\ \A i, j \in 1..Len(results) :
                LET a == results[i].metadata
                    b == results[j].metadata
                IN  (\/ a.source = b.source /\ a.chunkIndex < b.chunkIndex
                     \/ /\ a.source # b.source
                        /\ FirstOf(a.source, results) < FirstOf(b.source, results))
                    => place(i) < place(j)

\* the second chunk of "A" is the best result, the chunk of "B" the next and
\* the first chunk of "A" the last: the text has the two chunks of "A" in
\* document order, then "B"
C21_Witness ==
    /\ Returned(ScoredOps)
    /\ Len(ret.value.results) = 3
    /\ ret.value.results[1].id = 1
    /\ ret.value.results[2].id = 3
    /\ ret.value.results[3].id = 2
    /\ PlacesOf("a-first", ret.value.formattedContext) = {6}
    /\ PlacesOf("a-second", ret.value.formattedContext) = {8}

\* the deduplicated union of the results of the searches of a merging call
UnionOfCall ==
    MapValuesById(Flatten([i \in 1..Len(call.contexts) |-> call.contexts[i].value]))

\* C22: the results returned by retrieve, retrieveMultiple and
\* retrieveWithExpansion are in non-increasing score order, and after a merge
\* no chunk of the deduplicated union that was left out has a higher score than
\* a chunk that was kept.
C22_ResultsRanked ==
    Returned(ScoredOps) =>
        LET results == ret.value.results
        IN  /\ \A i \in 1..(Len(results) - 1) : results[i].score >= results[i + 1].score
            /\ call.op \in MergeOps =>
                \A i \in 1..Len(UnionOfCall) :
                    UnionOfCall[i].id \notin IdsOf(results) =>
                        \A j \in 1..Len(results) : UnionOfCall[i].score <= results[j].score

\* C23: the citations of a Retrieval Context are in non-increasing order of
\* relevance score, and of two citations with the same score the one whose
\* source occurs first in the results comes first.
C23_CitationsRanked ==
    Returned(RetrievalOps) =>
        LET results == ret.value.results
            citations == ret.value.citations
        IN  \A i, j \in 1..Len(citations) :
                i < j =>
                    /\ citations[i].relevanceScore >= citations[j].relevanceScore
                    /\ citations[i].relevanceScore = citations[j].relevanceScore
                        => FirstOf(citations[i].source, results)
                            < FirstOf(citations[j].source, results)

\* two sources cited with the same score, the first of them only after its
\* score was raised by a later chunk
C23_Witness ==
    /\ Returned(ScoredOps)
    /\ Len(ret.value.citations) = 2
    /\ ret.value.citations[1].relevanceScore = ret.value.citations[2].relevanceScore
    /\ ret.value.results[1].metadata.source = ret.value.citations[1].source
    /\ ret.value.results[1].score < ret.value.citations[1].relevanceScore

\* the last n words of a buffer, all of them if it has fewer, none for n = 0
TrailingWords(words, n) ==
    IF n >= Len(words) THEN words ELSE SubSeq(words, Len(words) - n + 1, Len(words))

\* C24: whenever chunkText closes a chunk, the buffer it goes on with is the
\* last floor(overlap / 5) words of the closed buffer, all its words if it has
\* fewer and none of them when overlap < 5, followed by the sentence that made
\* it close the chunk.
C24_SeedIsOverlapWindow ==
    call.op = "chunkText" =>
        LET closes == ChunkCloses(SentencesOfCall, EmptyString, call.maxChunkSize,
                                  call.overlap)
        IN  \A i \in 1..Len(closes) :
                closes[i].seeded
                    = TrailingWords(closes[i].closed, call.overlap \div 5)
                        \o closes[i].sentence

\* C25: while retrieveMultiple is in flight every one of its queries has a
\* search that was issued, from before the first answer on; it returns a
\* Retrieval Context only when every search has completed, and that context
\* is the merge of the results of the searches taken in the order of the
\* queries, whatever the order in which they completed.
C25_JoinThenMerge ==
    InFlight =>
        /\ Len(call.tasks) = call.queries
        /\ ret.status = "fulfilled" =>
            /\ \A i \in 1..call.queries : call.tasks[i].settled.status = "fulfilled"
            /\ ret.value.results =
                Slice(MergeResults([i \in 1..call.queries |-> call.tasks[i].settled.value]),
                      LimitOr(call.options, DefaultMultiLimit))
            /\ ret.value.citations = extractCitations(ret.value.results)
            /\ ret.value.formattedContext = formatContext(ret.value.results)

\* the second search completed before the first, and both found the same
\* chunk, with different scores
C25_Witness ==
    /\ InFlight
    /\ ret.status = "fulfilled"
    /\ call.order = <<2, 1>>
    /\ Len(ret.value.results) > 0
    /\ \E i \in 1..Len(call.tasks[1].settled.value),
          j \in 1..Len(call.tasks[2].settled.value) :
            /\ call.tasks[1].settled.value[i].id = call.tasks[2].settled.value[j].id
            /\ call.tasks[1].settled.value[i].score # call.tasks[2].settled.value[j].score

\* C29: when the searches of a retrieveMultiple start on a store without
\* handle, at most one of them runs initialize(), and none of them fails
\* because the collection had been created by another one.
C29_InitializedOnce ==
    InFlight =>
        /\ Cardinality({i \in 1..Len(call.tasks) : call.tasks[i].initialized}) <= 1
        /\ \A i \in 1..Len(call.tasks) : call.tasks[i].fail # "exists"

\* C30: whenever the store holds a collection handle, the collection exists in
\* the engine; after a clear() that succeeded it exists and is empty.
C30_HandleIsLive ==
    /\ collection = "open" => exists
    /\ (call.op = "clear" /\ ret.status = "fulfilled") => (exists /\ docs = {})

\* C26: the batch that indexDocuments hands to addDocuments, loaded from
\* distinct issues, pages and file paths, has no id twice.
C26_BatchIdsDistinct ==
    call.op = "indexDocuments" =>
        \A i, j \in 1..Len(call.batch) :
            i # j => call.batch[i].id # call.batch[j].id

\* a sentence stands whole in a chunk
Occurs(sentence, chunk) ==
    \E p \in 1..(Len(chunk) - Len(sentence) + 1) :
        SubSeq(chunk, p, p + Len(sentence) - 1) = sentence

\* the sentences of the text handed to chunkText that are not blank, without
\* the spaces around them
NonBlankOfCall ==
    LET kept == SelectSeq(SentencesOfCall, LAMBDA sentence : StrLen(Trim(sentence)) > 0)
    IN  [k \in 1..Len(kept) |-> Trim(kept[k])]

\* every sentence stands whole in a chunk that is not before the chunk taken
\* for the sentence before it, from the chunk `from` on
RECURSIVE InOrder(_, _, _)
InOrder(sentences, chunks, from) ==
    IF sentences = <<>> THEN TRUE
    ELSE LET found == {c \in from..Len(chunks) : Occurs(Head(sentences), chunks[c])}
         IN  /\ found # {}
             /\ InOrder(Tail(sentences), chunks,
                        CHOOSE c \in found : \A d \in found : c <= d)

\* the last sentence of the text handed to chunkText, without the spaces
\* around it
LastOfCall == Trim(SentencesOfCall[Len(SentencesOfCall)])

\* C27: every sentence of the text that is not blank stands whole (up to the
\* spaces around it) in a returned chunk, the sentences in the order of the
\* text along the chunks; the buffer left at the end is returned: the last
\* sentence, if it is not blank, stands in the last chunk.
C27_SentencesKept ==
    call.op = "chunkText" =>
        /\ InOrder(NonBlankOfCall, ret.value, 1)
        /\ StrLen(LastOfCall) > 0 =>
            /\ Len(ret.value) > 0
            /\ Occurs(LastOfCall, ret.value[Len(ret.value)])

\* three sentences in two chunks or more, the chunk closed last carried over
\* in part
C27_Witness ==
    /\ call.op = "chunkText"
    /\ call.overlap >= 5
    /\ Len(NonBlankOfCall) >= 3
    /\ Len(ret.value) >= 2
    /\ Occurs(NonBlankOfCall[Len(NonBlankOfCall)], ret.value[Len(ret.value)])

\* C28: no chunk returned by chunkText is empty or blank, and a text that is
\* empty or blank gives no chunk.
C28_NoBlankChunk ==
    call.op = "chunkText" =>
        /\ \A i \in 1..Len(ret.value) : StrLen(Trim(ret.value[i])) > 0
        /\ StrLen(Trim(call.text)) = 0 => ret.value = <<>>

====
